---- MODULE Spec2Model ----
(***************************************************************************)
(* Batch-collection state machine of the Telethon photo batch collector    *)
(* (src/main.py).  Strings are sequences of one-character strings.  The    *)
(* handler runs on a single asyncio event loop: a handler invocation runs  *)
(* without interruption except at its one await (the media download), so   *)
(* several invocations can be suspended in their downloads at once.        *)
(***************************************************************************)
EXTENDS Integers, Sequences, FiniteSets, TLC

(***************************************************************************)
(* Bounds of the model.                                                    *)
(***************************************************************************)
\* number of inbound events of one run
MaxEvents == 5
\* number of distinct values the wall clock (datetime.now) can show
MaxStamp == 2

\* batch_started_at = None
NoStamp == 0
\* values datetime.now().strftime(...) can return (local time: it can repeat)
Stamps == 1..MaxStamp

(***************************************************************************)
(* Strings.                                                                *)
(***************************************************************************)
\* characters str.strip() and the regex class \s treat as whitespace
Whitespace == {" ", "\t", "\n", "\r", "\f"}

UpperAlpha == <<"A","B","C","D","E","F","G","H","I","J","K","L","M",
                "N","O","P","Q","R","S","T","U","V","W","X","Y","Z">>
LowerAlpha == <<"a","b","c","d","e","f","g","h","i","j","k","l","m",
                "n","o","p","q","r","s","t","u","v","w","x","y","z">>

\* str.lower() on one character
LowerChar(c) ==
    IF \E i \in 1..26 : UpperAlpha[i] = c
    THEN LowerAlpha[CHOOSE i \in 1..26 : UpperAlpha[i] = c]
    ELSE c

\* str.lower()
Lower(s) == [i \in 1..Len(s) |-> LowerChar(s[i])]

\* s[from..to] (1-based, inclusive), empty when from > to
Slice(s, from, to) == [i \in 1..(to - from + 1) |-> s[from + i - 1]]

\* str.strip(chars): drop leading and trailing characters that are in chars
StripChars(s, chars) ==
    LET keep == {i \in 1..Len(s) : s[i] \notin chars}
    IN IF keep = {} THEN <<>>
       ELSE LET lo == CHOOSE i \in keep : \A j \in keep : i <= j
                hi == CHOOSE i \in keep : \A j \in keep : j <= i
            IN Slice(s, lo, hi)

\* str.strip()
Strip(s) == StripChars(s, Whitespace)

\* re.sub("c+", rep, s) for the character class cls: every maximal run of
\* characters of cls becomes the single character rep (the last character
\* of a run stands for the run)
CollapseRuns(s, cls, rep) ==
    LET keep == {i \in 1..Len(s) :
                    \/ s[i] \notin cls
                    \/ i = Len(s)
                    \/ s[i + 1] \notin cls}
        at(k) == CHOOSE i \in keep : Cardinality({j \in keep : j <= i}) = k
    IN [k \in 1..Cardinality(keep) |->
           IF s[at(k)] \in cls THEN rep ELSE s[at(k)]]

(***************************************************************************)
(* Configuration and helpers.                                              *)
(***************************************************************************)
TRIGGER_TEXT == <<"s","e","n","d","i","n","g"," ","p","h","o","t","o","s">>

ALLOW_IMAGE_DOCUMENTS == TRUE

\* r'<>:"/\|?*\n\r\t' is a raw string: its last six characters are three
\* backslashes and the letters n, r and t, and re.escape keeps each of them
\* as a literal of the character class
INVALID_FS_CHARS == {"<", ">", ":", "\"", "/", "\\", "|", "?", "*", "n", "r", "t"}

Unknown == <<"U","n","k","n","o","w","n">>
UnknownCity == Unknown \o <<"C","i","t","y">>
UnknownSite == Unknown \o <<"S","i","t","e">>

\* default of sanitize_name's max_len parameter
DefaultMaxLen == 80

sanitize_name(name, max_len) ==
    LET stripped == Strip(name)
    IN IF stripped = <<>> THEN Unknown
       ELSE LET replaced == [i \in 1..Len(stripped) |->
                               IF stripped[i] \in INVALID_FS_CHARS
                               THEN "_" ELSE stripped[i]]
                spaces   == CollapseRuns(replaced, Whitespace, " ")
                unders   == CollapseRuns(spaces, {"_"}, "_")
                trimmed  == StripChars(unders, {" ", ".", "_"})
            IN IF Len(trimmed) > max_len
               THEN SubSeq(trimmed, 1, max_len) ELSE trimmed

\* re.split(r"\s*[|-]\s*", info, maxsplit=1): the leftmost match starts at
\* the beginning of the whitespace run in front of the first separator and
\* ends after the whitespace run behind it
SplitFirst(info) ==
    LET seps == {i \in 1..Len(info) : info[i] \in {"|", "-"}}
    IN IF seps = {} THEN <<info>>
       ELSE LET k  == CHOOSE i \in seps : \A j \in seps : i <= j
                lo == CHOOSE p \in 1..k :
                        /\ \A q \in p..(k-1) : info[q] \in Whitespace
                        /\ \A r \in 1..(p-1) :
                             \E q \in r..(k-1) : info[q] \notin Whitespace
                hi == CHOOSE p \in k..Len(info) :
                        /\ \A q \in (k+1)..p : info[q] \in Whitespace
                        /\ (p < Len(info) => info[p+1] \notin Whitespace)
            IN <<Slice(info, 1, lo - 1), Slice(info, hi + 1, Len(info))>>

parse_city_site(text) ==
    LET info  == Strip(text)
        parts == SplitFirst(info)
        ok    == Len(parts) >= 2 /\ Strip(parts[1]) # <<>> /\ Strip(parts[2]) # <<>>
        city  == IF ok THEN Strip(parts[1]) ELSE UnknownCity
        site  == IF ok THEN Strip(parts[2])
                 ELSE IF info # <<>> THEN info ELSE UnknownSite
    IN <<sanitize_name(city, DefaultMaxLen), sanitize_name(site, DefaultMaxLen)>>

is_trigger(text) == Lower(Strip(text)) = TRIGGER_TEXT

\* msg is a record [photo: BOOLEAN, mime: string]; mime is "" without a
\* document, else the document's mime type class
is_photo_message(msg) ==
    IF msg.photo THEN TRUE
    ELSE IF ALLOW_IMAGE_DOCUMENTS /\ msg.mime = "image/" THEN TRUE
    ELSE FALSE

\* the destination folder of a batch: the sanitized "<city> - <site>" and
\* the batch stamp
batch_folder(city, site, stamp) ==
    <<sanitize_name(city \o <<" ", "-", " ">> \o site, DefaultMaxLen), stamp>>

\* text = (event.raw_text or "").strip()
TextOf(raw) == Strip(raw)


(***************************************************************************)
(* Inputs of the model.                                                    *)
(***************************************************************************)

\* event.raw_text of the inbound events
RawTexts ==
    { <<>>,
      <<" ">>,
      TRIGGER_TEXT,
      <<" ","S","e","n","d","i","n","g"," ","P","h","o","t","o","s">>,
      <<"A"," ","|"," ","T">>,
      <<"A","-","T">>,
      <<"T">> }

\* The helpers' results on the texts of RawTexts, computed once.
Texts == {TextOf(raw) : raw \in RawTexts}
TriggerTexts == {t \in Texts : is_trigger(t)}
Labelled == {<<t, parse_city_site(t)>> : t \in Texts}
LabelOf(t) == (CHOOSE p \in Labelled : p[1] = t)[2]
Named == {<<p[2], batch_folder(p[2][1], p[2][2], NoStamp)[1]>> : p \in Labelled}
FolderOf(label, stamp) == <<(CHOOSE p \in Named : p[1] = label)[2], stamp>>

\* event.message: a photo, a document (with its mime type) or neither
Messages == [photo : BOOLEAN, mime : {"", "image/", "video/"}]

\* A file name is <<stem, suffixes>>: <<"a", <<>>>> is a.jpg and
\* <<"a", <<1>>>> is a_1.jpg.
\* names msg.download_media can give a file in DOWNLOAD_TEMP
DownloadNames == { <<"a", <<>>>>, <<"a", <<1>>>>, <<"b", <<>>>> }

\* os.path.splitext(base) and f"{root}_{moved}{ext}"
\* (variant: the index counts from one)
RenamedFromOne(base, moved) == <<base[1], Append(base[2], moved + 1)>>
Renamed(base, moved) == <<base[1], Append(base[2], moved)>>

VARIABLES
    collecting,        \* global collecting
    batch_started_at,  \* global batch_started_at (NoStamp is None)
    downloaded_files,  \* global downloaded_files
    dirsMade,          \* OUTPUT_ROOT and DOWNLOAD_TEMP exist
    inbox,             \* names of the files in DOWNLOAD_TEMP
    folders,           \* batch folders that exist under OUTPUT_ROOT
    destFiles,         \* folder -> names of the files in it
    pending,           \* handler invocations suspended in download_media
    fin,               \* the handler invocation running the finalize block
    nEvents,           \* number of events delivered so far
    ev,                \* the event handled last, the branch it took and the
                       \* clock value it read (NoStamp when it read none)
    pass,              \* record of the last finalize pass
    got,               \* paths the downloads returned since the last trigger
    orphans,           \* files a trigger dropped from downloaded_files
    failedAt,          \* Len(got) when a download last failed since the last
                       \* trigger, -1 when none did
    run,               \* progress of the run trigger, media*, text
    hist,              \* the events behind the state: the suspended
                       \* invocations whose event came before the event of a
                       \* path now in downloaded_files (overtaken), whether
                       \* the paths were appended in the order of their
                       \* events, the suspended invocations that began before
                       \* the last trigger (old), whether a path of such an
                       \* invocation is in downloaded_files (stale), and the
                       \* clock value the trigger of the open batch read
    calc               \* an evaluation of one of the helpers on an input

vars == <<collecting, batch_started_at, downloaded_files, dirsMade, inbox,
          folders, destFiles, pending, fin, nEvents, ev, pass, got, orphans,
          failedAt, run, hist, calc>>

state == <<collecting, batch_started_at, downloaded_files>>
files == <<inbox, folders, destFiles>>

NoFolder == <<<<>>, NoStamp>>
NoFin == [active |-> FALSE, folder |-> NoFolder, moved |-> 0, i |-> 0]
NoPass == [folder |-> NoFolder, created |-> FALSE, tried |-> <<>>,
           staged |-> <<>>, inbox0 |-> {}, dest0 |-> {}, moved |-> 0,
           failed |-> 0, ended |-> "none"]
NoHist == [overtaken |-> {}, inOrder |-> TRUE, old |-> {}, stale |-> FALSE,
           trigStamp |-> NoStamp]
NoCalc == [fn |-> "none", arg |-> <<>>, max_len |-> 0, out |-> <<>>, again |-> <<>>,
           label |-> <<>>, hit |-> FALSE]

FilesIn(folder) == IF folder \in folders THEN destFiles[folder] ELSE {}

Init ==
    /\ collecting = FALSE
    /\ batch_started_at = NoStamp
    /\ downloaded_files = <<>>
    /\ dirsMade = FALSE
    /\ inbox = {}
    /\ folders = {}
    /\ destFiles = [f \in {} |-> {}]
    /\ pending = {}
    /\ fin = NoFin
    /\ nEvents = 0
    /\ ev = [branch |-> "none", now |-> NoStamp, trig |-> FALSE, media |-> FALSE, text |-> FALSE,
             wasCollecting |-> FALSE, hadStaged |-> 0]
    /\ pass = NoPass
    /\ got = <<>>
    /\ orphans = {}
    /\ failedAt = -1
    /\ run = "init"
    /\ hist = NoHist
    /\ calc = NoCalc

\* The process starts on the output of an earlier run: a batch folder that
\* holds one relocated file (the state of the disk after the events
\* trigger, photo, text of a run whose trigger read the first clock value).
PriorFolder == FolderOf(LabelOf(<<"A", "-", "T">>), 1)
PriorFiles == { <<"a", <<>>>> }

InitDisk ==
    /\ collecting = FALSE
    /\ batch_started_at = NoStamp
    /\ downloaded_files = <<>>
    /\ dirsMade = TRUE
    /\ inbox = {}
    /\ folders = {PriorFolder}
    /\ destFiles = [f \in {PriorFolder} |-> PriorFiles]
    /\ pending = {}
    /\ fin = NoFin
    /\ nEvents = 0
    /\ ev = [branch |-> "none", now |-> NoStamp, trig |-> FALSE, media |-> FALSE, text |-> FALSE,
             wasCollecting |-> FALSE, hadStaged |-> 0]
    /\ pass = NoPass
    /\ got = <<>>
    /\ orphans = {}
    /\ failedAt = -1
    /\ run = "other"
    /\ hist = NoHist
    /\ calc = NoCalc

(***************************************************************************)
(* The handler (src/main.py, handler).                                     *)
(***************************************************************************)
\* The finalize block holds no await: while an invocation is in it, the
\* event loop runs nothing else.
\* (variant: the finalize block yields to the event loop)
LoopFreeInFinalize == TRUE
LoopFree == ~fin.active

\* the three tests of the handler, in the order the code makes them
\* (variant: the trigger is honoured only when not collecting)
TriggerTestWhenIdle(text, msg) ==
    ~collecting /\ text # <<>> /\ text \in TriggerTexts
\* (variant: media with a caption is not collected)
CollectTestNoCaption(text, msg) ==
    collecting /\ is_photo_message(msg) /\ text = <<>>
\* (variant: media is collected whatever the state)
CollectTestAnyState(text, msg) == is_photo_message(msg)
TriggerTest(text, msg) == text # <<>> /\ text \in TriggerTexts
CollectTest(text, msg) == collecting /\ is_photo_message(msg)
FinalizeTest(text, msg) == collecting /\ text # <<>>

Observed(branch, text, msg, now) ==
    [branch |-> branch,
     now |-> now,
     trig |-> (text # <<>> /\ text \in TriggerTexts),
     media |-> is_photo_message(msg),
     text |-> (text # <<>>),
     wasCollecting |-> collecting,
     hadStaged |-> Len(downloaded_files)]

\* every invocation starts with ensure_dirs() and handles one new event;
\* creating OUTPUT_ROOT and DOWNLOAD_TEMP is taken to succeed
Arrives(branch, text, msg, now) ==
    /\ LoopFree
    /\ nEvents < MaxEvents
    /\ nEvents' = nEvents + 1
    /\ dirsMade' = TRUE
    /\ ev' = Observed(branch, text, msg, now)

\* 1) trigger: lines 142-148
\* (variant: the trigger keeps the staged files)
StartBatchKeepsFiles(now) ==
    /\ collecting' = TRUE
    /\ downloaded_files' = downloaded_files
    /\ batch_started_at' = now
StartBatch(now) ==
    /\ collecting' = TRUE
    /\ downloaded_files' = <<>>
    /\ batch_started_at' = now

Trigger ==
    \E text \in Texts, msg \in Messages, now \in Stamps :
        /\ TriggerTest(text, msg)
        /\ Arrives("trigger", text, msg, now)
        /\ StartBatch(now)
        /\ got' = <<>>
        /\ orphans' = orphans \cup {downloaded_files[i] : i \in 1..Len(downloaded_files)}
        /\ failedAt' = -1
        /\ run' = IF run = "init" THEN "batch" ELSE "other"
        /\ hist' = [NoHist EXCEPT !.old = pending, !.trigStamp = now]
        /\ UNCHANGED <<files, pending, fin, pass, calc>>

\* 2) qualifying media while collecting: lines 151-154, up to the await
MediaArrives ==
    \E text \in Texts, msg \in Messages :
        /\ ~TriggerTest(text, msg)
        /\ CollectTest(text, msg)
        /\ Arrives("download", text, msg, NoStamp)
        /\ pending' = pending \cup {nEvents + 1}
        /\ run' = IF run = "batch" /\ pending = {} THEN "batch" ELSE "other"
        /\ UNCHANGED <<state, files, fin, pass, got, orphans, failedAt, hist, calc>>

\* download_media returned a path: lines 155-157 and 160.  The file is new
\* in DOWNLOAD_TEMP (download_media never writes over an existing file).
\* (variant: the path replaces the list)
CollectedAlone(path) == downloaded_files' = <<path>>
Collected(path) == downloaded_files' = Append(downloaded_files, path)

DownloadSucceeds ==
    \E id \in pending, path \in DownloadNames \ inbox :
        /\ LoopFree
        /\ pending' = pending \ {id}
        /\ inbox' = inbox \cup {path}
        /\ Collected(path)
        /\ got' = Append(got, path)
        /\ hist' = [hist EXCEPT !.overtaken = (@ \cup {p \in pending : p < id}) \ {id},
                                 !.inOrder = @ /\ id \notin hist.overtaken,
                                 !.stale = @ \/ id \in hist.old,
                                 !.old = @ \ {id}]
        /\ UNCHANGED <<collecting, batch_started_at, dirsMade, folders, destFiles,
                       fin, nEvents, ev, pass, orphans, failedAt, run, calc>>

\* download_media returned None or raised: lines 155, 158-160
\* (variant: a failed download ends the batch)
SkippedEndsBatch ==
    /\ collecting' = FALSE
    /\ batch_started_at' = NoStamp
    /\ UNCHANGED downloaded_files
Skipped == UNCHANGED <<collecting, batch_started_at, downloaded_files>>

DownloadFails ==
    \E id \in pending :
        /\ LoopFree
        /\ pending' = pending \ {id}
        /\ Skipped
        /\ failedAt' = Len(got)
        /\ run' = "other"
        /\ hist' = [hist EXCEPT !.old = @ \ {id}, !.overtaken = @ \ {id}]
        /\ UNCHANGED <<dirsMade, files, fin, nEvents, ev, pass, got, orphans, calc>>

\* 3) non-trigger text while collecting: lines 163-169, os.makedirs succeeds
FinalizeBegins ==
    \E text \in Texts, msg \in Messages, now \in Stamps :
        LET label  == LabelOf(text)
            stamp  == IF batch_started_at # NoStamp THEN batch_started_at ELSE now
            folder == FolderOf(label, stamp)
        IN
        /\ ~TriggerTest(text, msg)
        /\ ~CollectTest(text, msg)
        /\ FinalizeTest(text, msg)
        /\ Arrives("finalize", text, msg, IF batch_started_at # NoStamp THEN NoStamp ELSE now)
        /\ folders' = folders \cup {folder}
        /\ destFiles' = [f \in folders \cup {folder} |-> FilesIn(f)]
        /\ fin' = [active |-> TRUE, folder |-> folder, moved |-> 0, i |-> 1]
        /\ pass' = [folder |-> folder, created |-> folder \notin folders,
                    tried |-> <<>>, staged |-> got, inbox0 |-> inbox,
                    dest0 |-> FilesIn(folder), moved |-> 0, failed |-> 0,
                    ended |-> "none"]
        /\ run' = IF run = "batch" /\ pending = {} THEN "batch" ELSE "other"
        /\ UNCHANGED <<state, inbox, pending, got, orphans, failedAt, hist, calc>>

\* 3) os.makedirs(dest_folder) raises: the exception leaves the handler at
\* line 167
MkdirFails ==
    \E text \in Texts, msg \in Messages :
        /\ ~TriggerTest(text, msg)
        /\ ~CollectTest(text, msg)
        /\ FinalizeTest(text, msg)
        /\ Arrives("mkdir_raised", text, msg, NoStamp)
        /\ run' = "other"
        /\ UNCHANGED <<state, files, pending, fin, pass, got, orphans, failedAt,
                       hist, calc>>

\* one round of the loop of lines 170-181 in which os.replace succeeds
Counted(moved) == moved + 1

MoveSucceeds ==
    /\ fin.active
    /\ fin.i <= Len(downloaded_files)
    /\ LET src  == downloaded_files[fin.i]
           base == src
           dst  == IF base \in FilesIn(fin.folder)
                   THEN Renamed(base, fin.moved) ELSE base
       IN /\ src \in inbox
          /\ inbox' = inbox \ {src}
          /\ destFiles' = [destFiles EXCEPT ![fin.folder] = @ \cup {dst}]
          /\ fin' = [fin EXCEPT !.moved = Counted(@), !.i = @ + 1]
          /\ pass' = [pass EXCEPT !.tried = Append(@, src)]
    /\ UNCHANGED <<state, dirsMade, folders, pending, nEvents, ev, got, orphans,
                   failedAt, run, hist, calc>>

\* one round of the loop in which os.replace raises: lines 180-181; the
\* increment of line 179 is skipped
\* (variant: the file is counted before it is moved)
CountedAnyway(moved) == moved + 1
NotCounted(moved) == moved

MoveFails ==
    /\ fin.active
    /\ fin.i <= Len(downloaded_files)
    /\ fin' = [fin EXCEPT !.moved = NotCounted(@), !.i = @ + 1]
    /\ pass' = [pass EXCEPT !.tried = Append(@, downloaded_files[fin.i]),
                            !.failed = @ + 1]
    /\ UNCHANGED <<state, dirsMade, files, pending, nEvents, ev, got, orphans,
                   failedAt, run, hist, calc>>

\* the report and the reset: lines 183-192
\* (variant: the reset keeps the batch stamp)
ResetKeepsStamp ==
    /\ collecting' = FALSE
    /\ batch_started_at' = batch_started_at
    /\ downloaded_files' = <<>>
ResetState ==
    /\ collecting' = FALSE
    /\ batch_started_at' = NoStamp
    /\ downloaded_files' = <<>>

FinalizeEnds ==
    /\ fin.active
    /\ fin.i > Len(downloaded_files)
    /\ ResetState
    /\ fin' = NoFin
    /\ pass' = [pass EXCEPT !.moved = fin.moved, !.ended = "returned"]
    /\ got' = <<>>
    /\ run' = IF run = "batch" THEN "done" ELSE "other"
    /\ hist' = [NoHist EXCEPT !.old = hist.old]
    /\ UNCHANGED <<dirsMade, files, pending, nEvents, ev, orphans, failedAt, calc>>

\* 4) no test holds: the handler falls through
Ignored ==
    \E text \in Texts, msg \in Messages :
        /\ ~TriggerTest(text, msg)
        /\ ~CollectTest(text, msg)
        /\ ~FinalizeTest(text, msg)
        /\ Arrives("ignored", text, msg, NoStamp)
        /\ run' = "other"
        /\ UNCHANGED <<state, files, pending, fin, pass, got, orphans, failedAt,
                       hist, calc>>

Next ==
    \/ Trigger
    \/ MediaArrives
    \/ DownloadSucceeds
    \/ DownloadFails
    \/ FinalizeBegins
    \/ MkdirFails
    \/ MoveSucceeds
    \/ MoveFails
    \/ FinalizeEnds
    \/ Ignored

Spec == Init /\ [][Next]_vars

\* the handler in a process that starts on the output of an earlier run
SpecDisk == InitDisk /\ [][Next]_vars

(***************************************************************************)
(* The helpers on their own: one evaluation of sanitize_name (and of       *)
(* sanitize_name on its result), of parse_city_site or of is_trigger on an *)
(* input string.                                                           *)
(***************************************************************************)
MaxStrLen == 3

Alphabet == {" ", ".", "_", "/", "a", "n", "|", "-"}

RECURSIVE StringsUpTo(_)
StringsUpTo(n) ==
    IF n = 0 THEN { <<>> }
    ELSE StringsUpTo(n - 1) \cup
         { Append(s, c) : s \in { t \in StringsUpTo(n - 1) : Len(t) = n - 1 },
                          c \in Alphabet }

Repeat(c, n) == [i \in 1..n |-> c]

\* texts longer than the default max_len, with and without a separator
LongTexts ==
    { Repeat("a", DefaultMaxLen + 1),
      Repeat("a", DefaultMaxLen + 1) \o <<" ", "|", " ">> \o Repeat("a", DefaultMaxLen + 2) }

\* the trigger phrase in other cases, with whitespace around it and between
\* its words, and texts around it
TriggerLike ==
    { pre \o w1 \o sep \o w2 \o post :
        pre  \in { <<>>, <<" ">>, <<"\t", " ">> },
        w1   \in { <<"s","e","n","d","i","n","g">>, <<"S","e","n","d","i","n","g">>,
                   <<"S","E","N","D","I","N","G">> },
        sep  \in { <<" ">>, <<" ", " ">>, <<"\t">>, <<>>, <<"_">> },
        w2   \in { <<"p","h","o","t","o","s">>, <<"P","h","o","t","o","s">> },
        post \in { <<>>, <<" ">>, <<"\n">>, <<"x">> } }

PureInputs == StringsUpTo(MaxStrLen) \cup LongTexts \cup TriggerLike

MaxLens == (1..MaxStrLen) \cup {DefaultMaxLen}

InitPure ==
    /\ collecting = FALSE
    /\ batch_started_at = NoStamp
    /\ downloaded_files = <<>>
    /\ dirsMade = TRUE
    /\ inbox = {}
    /\ folders = {}
    /\ destFiles = <<>>
    /\ pending = {}
    /\ fin = NoFin
    /\ nEvents = 0
    /\ ev = [branch |-> "none", now |-> NoStamp, trig |-> FALSE, media |-> FALSE, text |-> FALSE,
             wasCollecting |-> FALSE, hadStaged |-> 0]
    /\ pass = NoPass
    /\ got = <<>>
    /\ orphans = {}
    /\ failedAt = -1
    /\ run = "other"
    /\ hist = NoHist
    /\ \E x \in PureInputs, m \in MaxLens :
          calc = [NoCalc EXCEPT !.arg = x, !.max_len = m]

handlerVars == <<state, dirsMade, files, pending, fin, nEvents, ev, pass, got,
                 orphans, failedAt, run, hist>>

\* sanitize_name(name, max_len)
ApplySanitize ==
    /\ calc.fn = "none"
    /\ calc' = [calc EXCEPT !.fn = "sanitize_name",
                            !.out = sanitize_name(calc.arg, calc.max_len)]
    /\ UNCHANGED handlerVars

\* sanitize_name(sanitize_name(name, max_len), max_len)
ApplySanitizeAgain ==
    /\ calc.fn = "sanitize_name"
    /\ calc' = [calc EXCEPT !.fn = "sanitize_name twice",
                            !.again = sanitize_name(calc.out, calc.max_len)]
    /\ UNCHANGED handlerVars

\* parse_city_site(text); both parts go through sanitize_name with the
\* default max_len
ApplyParse ==
    /\ calc.fn = "none"
    /\ calc.max_len = DefaultMaxLen
    /\ calc' = [calc EXCEPT !.fn = "parse_city_site",
                            !.label = parse_city_site(calc.arg)]
    /\ UNCHANGED handlerVars

\* is_trigger(text)
ApplyTrigger ==
    /\ calc.fn = "none"
    /\ calc.max_len = DefaultMaxLen
    /\ calc' = [calc EXCEPT !.fn = "is_trigger", !.hit = is_trigger(calc.arg)]
    /\ UNCHANGED handlerVars

NextPure ==
    \/ ApplySanitize
    \/ ApplySanitizeAgain
    \/ ApplyParse
    \/ ApplyTrigger

PureSpec == InitPure /\ [][NextPure]_vars

(***************************************************************************)
(* Steps of a behaviour, as the properties below name them.                *)
(***************************************************************************)
\* a handler invocation starts on a new event
EventStep == nEvents' = nEvents + 1
\* a suspended download ends, with or without a path
DownloadEnds == pending' # pending /\ pending' \subseteq pending
\* a handler invocation that was given a non-trigger, non-empty text
\* without qualifying media while collecting ends, by return or by raising
LabelEventEnds ==
    \/ EventStep /\ ev'.text /\ ~ev'.trig /\ ~ev'.media /\ ev'.wasCollecting
                 /\ ~fin'.active
    \/ fin.active /\ ~fin'.active
Idle(c, b, d) == c = FALSE /\ b = NoStamp /\ d = <<>>
Range(seq) == {seq[i] : i \in 1..Len(seq)}

(***************************************************************************)
(* C1: an event whose text matches the trigger phrase always ends with     *)
(* collecting = true, no staged files and startedAt = the clock value read *)
(* by the handler, and it finalizes nothing: no file is moved, no folder   *)
(* is created and no download is started, also when the event carries      *)
(* qualifying media.                                                       *)
(***************************************************************************)
C1_TriggerRestartsBatch ==
    [][(EventStep /\ ev'.trig) =>
          /\ collecting' = TRUE
          /\ downloaded_files' = <<>>
          /\ ev'.now \in Stamps /\ batch_started_at' = ev'.now
          /\ UNCHANGED <<inbox, folders, destFiles, pending, fin, pass>>]_vars

\* a trigger that carried qualifying media was handled while collecting
\* with staged files
C1_Witness ==
    /\ ev.branch = "trigger" /\ ev.trig /\ ev.media
    /\ ev.wasCollecting /\ ev.hadStaged > 0
    /\ collecting /\ downloaded_files = <<>> /\ inbox # {}

(***************************************************************************)
(* C2: whenever the handling of a non-trigger, non-empty text without      *)
(* qualifying media in COLLECTING ends, the state is IDLE with no staged   *)
(* files and no startedAt, and the reported count is the number of files   *)
(* that left the staging area in that pass.                                *)
(***************************************************************************)
C2_LabelEventEndsIdle ==
    [][LabelEventEnds =>
          /\ Idle(collecting', batch_started_at', downloaded_files')
          /\ pass'.ended = "returned"
          /\ pass'.moved = Cardinality(pass'.inbox0 \ inbox')]_vars

(***************************************************************************)
(* C3: in every reachable state, collecting = false implies that           *)
(* stagedFiles is empty.                                                   *)
(***************************************************************************)
C3_IdleHasNoStagedFiles == ~collecting => downloaded_files = <<>>

(***************************************************************************)
(* C4: the handling of an event never begins while the handling of an      *)
(* earlier event, its download included, has not completed.                *)
(***************************************************************************)
C4_HandlingIsSerialized ==
    [][EventStep => pending = {} /\ ~fin.active]_vars

(***************************************************************************)
(* C5: while a finalize pass is between the start of its iteration and its *)
(* reset, no other handler invocation starts (so no second finalize pass   *)
(* and no trigger reset), no download resumes, and stagedFiles changes     *)
(* only by the reset that ends the pass.                                   *)
(***************************************************************************)
C5_FinalizeIsAtomic ==
    [][fin.active =>
          /\ nEvents' = nEvents
          /\ pending' = pending
          /\ collecting' = collecting \/ ~fin'.active
          /\ downloaded_files' = downloaded_files \/ ~fin'.active
          /\ fin'.active => fin'.folder = fin.folder /\ fin'.i = fin.i + 1]_vars

\* a finalize pass is in the middle of its iteration while a download of
\* another invocation is suspended
C5_Witness ==
    /\ fin.active /\ fin.i > 1 /\ fin.i <= Len(downloaded_files)
    /\ pending # {}

(***************************************************************************)
(* C6: the files a trigger dropped from stagedFiles are never in the move  *)
(* list of a finalize, and they stay in the staging area.                  *)
(***************************************************************************)
C6_DroppedFilesAreNotMoved ==
    /\ orphans \subseteq inbox
    /\ fin.active => Range(downloaded_files) \cap orphans = {}

\* a finalize pass moves the files of the restarted batch while the files
\* of the interrupted batch are in the staging area
C6_Witness ==
    /\ orphans # {}
    /\ fin.active /\ fin.moved > 0

(***************************************************************************)
(* C7: if creating the destination folder fails, the state machine is in   *)
(* IDLE afterwards.                                                        *)
(***************************************************************************)
C7_MkdirFailureEndsIdle ==
    [][(EventStep /\ ev'.branch = "mkdir_raised") =>
          Idle(collecting', batch_started_at', downloaded_files')]_vars

(***************************************************************************)
(* C8: a download that ends without a path leaves collecting, startedAt    *)
(* and stagedFiles unchanged, and every download that ends with a path     *)
(* appends it to stagedFiles, also after a failed download in the batch.   *)
(***************************************************************************)
C8_FailedDownloadKeepsBatch ==
    [][DownloadEnds =>
          IF got' = got
          THEN UNCHANGED <<collecting, batch_started_at, downloaded_files>>
          ELSE /\ got' = Append(got, got'[Len(got')])
               /\ downloaded_files' = Append(downloaded_files, got'[Len(got')])
               /\ UNCHANGED <<collecting, batch_started_at>>]_vars

\* a download of the batch failed and a later one was staged
C8_Witness ==
    /\ collecting /\ failedAt >= 0 /\ Len(got) > failedAt
    /\ downloaded_files = got /\ ~fin.active

(***************************************************************************)
(* C9: a non-trigger event changes nothing (state, staging area, folders,  *)
(* downloads) when the state is IDLE, and also when the state is           *)
(* COLLECTING and the event has neither qualifying media nor text.         *)
(***************************************************************************)
C9_OtherEventsAreIgnored ==
    [][(EventStep /\ ~ev'.trig /\ (~collecting \/ (~ev'.media /\ ~ev'.text))) =>
          /\ UNCHANGED <<collecting, batch_started_at, downloaded_files>>
          /\ UNCHANGED <<inbox, folders, destFiles, pending, fin, pass>>]_vars

\* qualifying media with a text arrived after a finalize and was ignored
C9_Witness ==
    /\ ev.branch = "ignored" /\ ev.media /\ ev.text /\ ~ev.wasCollecting
    /\ pass.ended = "returned" /\ ~collecting /\ pending = {}

C12_MovedInArrivalOrder == fin.active => hist.inOrder

(***************************************************************************)
(* C13: a move that fails is not counted, leaves the staging area and the  *)
(* destination as they were, and the pass goes on to the next staged file: *)
(* when the pass ends every staged file was tried and the count is the     *)
(* number of tries that did not fail.                                      *)
(***************************************************************************)
C13_FailedMoveIsSkipped ==
    [][/\ (fin.active /\ pass'.failed = pass.failed + 1) =>
              /\ fin'.moved = fin.moved
              /\ UNCHANGED <<inbox, folders, destFiles>>
              /\ fin'.active /\ fin'.i = fin.i + 1
       /\ (fin.active /\ ~fin'.active) =>
              /\ pass.tried = downloaded_files
              /\ pass'.moved + pass.failed = Len(downloaded_files)]_vars

\* a pass of two files ended: the move of the first failed and the file is
\* in the staging area, the second was moved and counted
C13_Witness ==
    /\ pass.ended = "returned" /\ ~fin.active
    /\ Len(pass.tried) = 2 /\ pass.failed = 1 /\ pass.moved = 1
    /\ pass.tried[1] \in inbox /\ pass.tried[1] \notin destFiles[pass.folder]
    /\ pass.tried[2] \in destFiles[pass.folder]

(***************************************************************************)
(* C17: a non-trigger event in COLLECTING with qualifying media and a      *)
(* non-empty text starts a download and does not finalize: the state stays *)
(* COLLECTING, startedAt and stagedFiles are unchanged, no folder is       *)
(* created and no file is moved.                                           *)
(***************************************************************************)
C17_CaptionedMediaIsCollected ==
    [][(EventStep /\ ~ev'.trig /\ ev'.media /\ ev'.text /\ collecting) =>
          /\ pending' = pending \cup {nEvents'}
          /\ nEvents' \notin pending
          /\ collecting' = TRUE
          /\ UNCHANGED <<batch_started_at, downloaded_files>>
          /\ UNCHANGED <<inbox, folders, destFiles, fin, pass>>]_vars

\* a captioned photo arrived while collecting and its path was staged
C17_Witness ==
    /\ ev.branch = "download" /\ ev.media /\ ev.text /\ ~ev.trig
    /\ ev.wasCollecting /\ collecting /\ pending = {}
    /\ Len(downloaded_files) = ev.hadStaged + 1

(***************************************************************************)
(* C19: every path in the list a finalize pass iterates comes from a media *)
(* event that arrived after the most recent trigger.                       *)
(***************************************************************************)
C19_MoveListIsOfThisBatch == fin.active => ~hist.stale

(***************************************************************************)
(* C20: collecting = true if and only if startedAt is set; while           *)
(* collecting, startedAt is the clock value the most recent trigger read;  *)
(* the folder of a finalize pass carries that value, and no finalize reads *)
(* the clock.                                                              *)
(***************************************************************************)
C20_CollectingIffStamped ==
    /\ collecting <=> batch_started_at # NoStamp
    /\ collecting => batch_started_at = hist.trigStamp
    /\ fin.active => fin.folder[2] = hist.trigStamp /\ fin.folder[2] \in Stamps
    /\ ev.branch = "finalize" => ev.now = NoStamp

\* a finalize pass runs in a batch that a second trigger restarted
C20_Witness ==
    /\ fin.active /\ ev.branch = "finalize" /\ orphans # {}
    /\ fin.folder[2] = batch_started_at

(***************************************************************************)
(* C11: in a finalize pass no successful move overwrites a file of the     *)
(* destination: the folder holds its prior files and one more file for     *)
(* every move counted so far, so the reported count is the number of files *)
(* of this pass that exist in the destination afterwards.                  *)
(***************************************************************************)
C11_NoMoveOverwrites ==
    fin.active =>
        Cardinality(destFiles[fin.folder]) = Cardinality(pass.dest0) + fin.moved

(***************************************************************************)
(* C18: in a finalize pass the counter is the number of moves that have    *)
(* succeeded so far (0 at the start, not raised by a failed move), and a   *)
(* successful move of a file whose name is in the destination places it    *)
(* under <name>_<i><ext> with i that number; a file whose name is free     *)
(* keeps its name.                                                         *)
(***************************************************************************)
MovedSoFar == Cardinality(pass.inbox0 \ inbox)

C18_CollisionNameIsMoveCount ==
    [][fin.active =>
          /\ fin.moved = MovedSoFar
          /\ fin.moved = Len(pass.tried) - pass.failed
          /\ (fin'.active /\ inbox' # inbox) =>
                LET src == downloaded_files[fin.i] IN
                /\ inbox' = inbox \ {src}
                /\ destFiles' = [destFiles EXCEPT ![fin.folder] =
                       @ \cup {IF src \in destFiles[fin.folder]
                               THEN <<src[1], Append(src[2], MovedSoFar)>>
                               ELSE src}]]_vars

\* a pass into a folder that held a.jpg: the first file was moved, the move
\* of the second failed, and a.jpg was placed as a_1.jpg
C18_Witness ==
    /\ pass.ended = "returned" /\ ~fin.active
    /\ Len(pass.tried) = 3 /\ pass.failed = 1 /\ pass.moved = 2
    /\ pass.tried[3] = <<"a", <<>>>> /\ pass.tried[3] \in pass.dest0
    /\ pass.tried[2] \in inbox
    /\ destFiles[pass.folder] =
           pass.dest0 \cup {pass.tried[1], <<"a", <<1>>>>}
    /\ pass.tried[1] = <<"b", <<>>>>

(***************************************************************************)
(* C14: sanitize_name is idempotent: applying it to its own result, with   *)
(* the same max_len, gives that result again.                              *)
(***************************************************************************)
C14_SanitizeIsIdempotent ==
    calc.fn = "sanitize_name twice" => calc.again = calc.out

(***************************************************************************)
(* C15: for every text parse_city_site returns two parts that are both     *)
(* non-empty, both at most max_len (80) characters long and both free of   *)
(* the forbidden characters.                                               *)
(***************************************************************************)
ForbiddenChars == {"<", ">", ":", "\"", "/", "\\", "|", "?", "*", "\n", "\r", "\t"}

ValidPart(part) ==
    /\ part # <<>>
    /\ Len(part) <= DefaultMaxLen
    /\ \A i \in 1..Len(part) : part[i] \notin ForbiddenChars

C15_LabelPartsAreValid ==
    calc.fn = "parse_city_site" =>
        /\ Len(calc.label) = 2
        /\ ValidPart(calc.label[1])
        /\ ValidPart(calc.label[2])

(***************************************************************************)
(* C16: is_trigger is true exactly for the texts that equal the trigger    *)
(* phrase after case folding, removal of leading and trailing whitespace   *)
(* and replacement of every internal whitespace run by one space.          *)
(***************************************************************************)
Normalized(text) == CollapseRuns(Lower(Strip(text)), Whitespace, " ")

C16_TriggerIsNormalizedMatch ==
    calc.fn = "is_trigger" => (calc.hit <=> Normalized(calc.arg) = TRIGGER_TEXT)

====
